---- MODULE Spec2Model ----
(***************************************************************************)
(* Model of the analytics part of src/server.js: the analytics_data store, *)
(* the record / history / stats handlers, generateDemoData, and the two    *)
(* PredictionModels methods.                                               *)
(*                                                                         *)
(* Numbers.  JavaScript numbers are modelled by exact fixed-point values:  *)
(*   - a stored reading value (DECIMAL(6,2)) is an integer of hundredths;  *)
(*   - a value of a series point or of a statistic, which the code rounds  *)
(*     with Math.round(x * 10) / 10, is an integer of tenths;              *)
(*   - the random walk of generateDemoData runs in thousandths.            *)
(* Binary floating-point error is not modelled.                            *)
(*                                                                         *)
(* Time.  An instant is an integer number of ticks since the epoch (UTC),  *)
(* UnitsPerDay ticks to the day.  tz is the offset of the server's local   *)
(* time zone in ticks (local time = UTC + tz); it is fixed by the          *)
(* environment the process runs in.                                        *)
(***************************************************************************)
EXTENDS Integers, Sequences, FiniteSets, Bags, TLC

(* ------------------------------ bounds --------------------------------- *)

\* ticks per calendar day (granularity of the clock)
UnitsPerDay == 2

\* the clock advances by single ticks at most this many times a week
MaxTicks == 1

\* the analytics_data table holds at most this many rows
MaxRows == 2

\* garden ids of the history and stats requests; garden 1 is the one
\* initDatabase seeds with sample rows, this is a garden without sample rows
ReadGardens == {2}

\* metric types sent to the record endpoint
RecMetrics == {"temperature", "humidity"}

\* the record requests: a garden id and the metrics object of the body, the
\* values in hundredths (24.45, -0.15).  Garden 3 is a garden that is
\* written and never read.
RecordRequests ==
    {[gardenId |-> 2, metrics |-> [m \in {"temperature"} |-> 2445]],
     [gardenId |-> 2, metrics |-> [m \in {"temperature"} |-> -15]],
     [gardenId |-> 2, metrics |-> [m \in {"humidity"} |-> 2445]],
     [gardenId |-> 2, metrics |-> [m \in RecMetrics |->
                                     IF m = "temperature" THEN 2445 ELSE -15]],
     [gardenId |-> 2, metrics |-> [m \in {} |-> 0]],
     [gardenId |-> 3, metrics |-> [m \in {"temperature"} |-> 2445]]}

\* time zone offsets of the server, in ticks (UTC, and a zone ahead of UTC)
TzOffsets == {0, 1}

\* period tokens of a request; "year" stands for any unrecognized token
Periods == {"week", "month", "quarter", "year"}

\* amounts by which the clock advances in one step, in ticks: one tick, or
\* the seven days of the 'week' window
TickSteps == {1, 7 * UnitsPerDay}

\* the instants the clock takes: the process starts one tick into a UTC day
\* and runs for MaxTicks ticks, this week and a week later
ClockValues == {1 + w * 7 * UnitsPerDay + k : w \in {0, 1}, k \in 0..MaxTicks}

(* --------------------------- program constants -------------------------- *)

\* the five metrics of the demo fallback
FiveMetrics == {"temperature", "humidity", "soil_moisture", "light_level", "co2_level"}

VARIABLES
    now,       \* the wall clock, in ticks (what new Date() returns)
    tz,        \* the server's time zone offset, in ticks
    store,     \* table analytics_data: a bag of rows
    rec,       \* the record request in flight (its pending INSERTs)
    result,    \* the query of the handler that has just replied, and its rows
    res,       \* the response the handler of the last step has sent, if any
    gen,       \* a call of generateDemoData in progress
    pheno,     \* a call of predictPhenologicalPhase: its argument and result
    disease    \* a call of predictDiseaseRisk: its arguments and result

vars == <<now, tz, store, rec, result, res, gen, pheno, disease>>

MinOf(a, b) == IF a < b THEN a ELSE b

MaxOf(a, b) == IF a > b THEN a ELSE b

(* ------------------------------ helpers -------------------------------- *)

\* Math.round(num / den) for den > 0: the nearest integer, halves towards
\* +infinity (floor(x + 0.5))
MathRound(num, den) == (2 * num + den) \div (2 * den)

\* date.toISOString().split('T')[0]: the calendar date in UTC, as a day number
ISODate(t) == t \div UnitsPerDay

\* the calendar date in the server's local time zone, as a day number
LocalDate(t) == (t + tz) \div UnitsPerDay

\* an empty JavaScript object used as a map
EmptyMap == [k \in {} |-> <<>>]

(* ------------------------- the period of a request ---------------------- *)

\* history handler: startDate.setDate(now.getDate() - N), the if / else chain
HistoryStartDate(period, at) ==
    IF period = "week" THEN at - 7 * UnitsPerDay
    ELSE IF period = "month" THEN at - 30 * UnitsPerDay
    ELSE IF period = "quarter" THEN at - 90 * UnitsPerDay
    ELSE at - 7 * UnitsPerDay

\* getStartDate(period): the switch used by the stats handler
getStartDate(period, at) ==
    CASE period = "week" -> at - 7 * UnitsPerDay
      [] period = "month" -> at - 30 * UnitsPerDay
      [] period = "quarter" -> at - 90 * UnitsPerDay
      [] OTHER -> at - 7 * UnitsPerDay

(* ------------------------------ the store ------------------------------- *)

\* the rows of the table that a WHERE clause selects, as a bag
SelectRows(garden, since, metric) ==
    LET hit == {r \in BagToSet(store) :
                    /\ r.garden_id = garden
                    /\ r.recorded_at >= since
                    /\ (metric = "all" \/ r.metric_type = metric)}
    IN [r \in hit |-> store[r]]

\* SELECT ... ORDER BY recorded_at ASC: every ordering of the selected rows
\* that ascends by recorded_at (rows of equal recorded_at come in any order)
QueryReadings(garden, since, metric) ==
    LET sel == SelectRows(garden, since, metric)
        n == BagCardinality(sel)
    IN {s \in [1..n -> DOMAIN sel] :
            /\ \A r \in DOMAIN sel : Cardinality({i \in 1..n : s[i] = r}) = sel[r]
            /\ \A i \in 1..(n - 1) : s[i].recorded_at <= s[i + 1].recorded_at}

(* --------------------- history: grouping and averaging ------------------ *)

\* one iteration of result.rows.forEach: the row goes to
\* groupedData[date][metricType], both created on first use.  groupedData is
\* kept as the sequence of its keys in insertion order, which is the order
\* Object.keys enumerates them in.
GroupRow(groupedData, row) ==
    LET date == ISODate(row.recorded_at)
        metricType == row.metric_type
        g1 == IF \E i \in 1..Len(groupedData) : groupedData[i].date = date
              THEN groupedData
              ELSE Append(groupedData, [date |-> date, byMetric |-> <<>>])
        di == CHOOSE i \in 1..Len(g1) : g1[i].date = date
        b0 == g1[di].byMetric
        b1 == IF \E j \in 1..Len(b0) : b0[j].metricType = metricType
              THEN b0
              ELSE Append(b0, [metricType |-> metricType, values |-> <<>>])
        mj == CHOOSE j \in 1..Len(b1) : b1[j].metricType = metricType
        b2 == [b1 EXCEPT ![mj].values =
                  Append(@, [value |-> row.value, timestamp |-> row.recorded_at])]
    IN [g1 EXCEPT ![di].byMetric = b2]

RECURSIVE GroupRows(_, _, _)
GroupRows(groupedData, rows, i) ==
    IF i > Len(rows) THEN groupedData
    ELSE GroupRows(GroupRow(groupedData, rows[i]), rows, i + 1)

\* values.reduce((sum, item) => sum + item.value, 0)
RECURSIVE SumValues(_, _)
SumValues(values, i) ==
    IF i > Len(values) THEN 0 ELSE values[i].value + SumValues(values, i + 1)

\* BucketPoint with the division by values.length left out (the sum of the
\* bucket instead of its mean)
BucketPointSum(date, values) ==
    [value |-> MathRound(SumValues(values, 1), 10),
     date |-> date,
     timestamp |-> values[1].timestamp]

\* the point pushed for one (date, metricType) bucket; the value is
\* Math.round(avgValue * 10) / 10 in tenths, the values being in hundredths
BucketPoint(date, values) ==
    [value |-> MathRound(SumValues(values, 1), 10 * Len(values)),
     date |-> date,
     timestamp |-> values[1].timestamp]

\* metricsData[metricType].push(point), the array created on first use
PushPoint(metricsData, metricType, point) ==
    IF metricType \in DOMAIN metricsData
    THEN [metricsData EXCEPT ![metricType] = Append(@, point)]
    ELSE metricsData @@ (metricType :> <<point>>)

RECURSIVE AverageMetrics(_, _, _, _)
AverageMetrics(metricsData, date, byMetric, j) ==
    IF j > Len(byMetric) THEN metricsData
    ELSE AverageMetrics(
             PushPoint(metricsData, byMetric[j].metricType,
                       BucketPoint(date, byMetric[j].values)),
             date, byMetric, j + 1)

RECURSIVE AverageDates(_, _, _)
AverageDates(metricsData, groupedData, i) ==
    IF i > Len(groupedData) THEN metricsData
    ELSE AverageDates(
             AverageMetrics(metricsData, groupedData[i].date, groupedData[i].byMetric, 1),
             groupedData, i + 1)

\* metricsData as the two loops of the history handler leave it
MetricsData(rows) == AverageDates(EmptyMap, GroupRows(<<>>, rows, 1), 1)

(* --------------------------- generateDemoData --------------------------- *)

\* DemoDataPoints with one point a day of the period, an unrecognized
\* period counting as a week
DemoDataPointsByPeriod(period) ==
    CASE period = "month" -> 30
      [] period = "quarter" -> 90
      [] OTHER -> 7

\* const dataPoints = period === 'week' ? 7 : 30
DemoDataPoints(period) == IF period = "week" THEN 7 ELSE 30

\* Math.random() - 0.5, in quarters: d / 4 for d in -2 .. 2.  (Math.random()
\* is below 1, so d = 2 is the limit of the draws, not a draw.)
Draws == {-2, -1, 0, 1, 2}

\* const trend = (Math.random() - 0.5) * 0.3, in thousandths
Trend(d) == d * 75

\* const randomChange = (Math.random() - 0.5) * variance, in thousandths
RandomChange(d, variance) == (d * variance) \div 4

\* DemoWalk with the upper limit left out: Math.max(min, currentValue)
DemoWalkNoMax(currentValue, variance, min, max, dt, dc) ==
    MaxOf(min, currentValue + Trend(dt) + RandomChange(dc, variance))

\* currentValue += trend + randomChange;
\* currentValue = Math.max(min, Math.min(max, currentValue))
DemoWalk(currentValue, variance, min, max, dt, dc) ==
    MaxOf(min, MinOf(max, currentValue + Trend(dt) + RandomChange(dc, variance)))

\* the point pushed in iteration i (date = today - i days); the value is
\* Math.round(currentValue * 10) / 10 in tenths
DemoPoint(currentValue, i, at) ==
    [value |-> MathRound(currentValue, 100),
     date |-> ISODate(at - i * UnitsPerDay),
     timestamp |-> at - i * UnitsPerDay]

\* the pair of draws a stream of random numbers yields in iteration i
DrawOf(rnd, i) == IF i % 2 = 1 THEN rnd.odd ELSE rnd.even

\* the streams of random numbers the history handler is run with: all draws
\* lowest, and draws that alternate
RandomStreams ==
    {[odd |-> <<-2, -2>>, even |-> <<-2, -2>>],
     [odd |-> <<2, 1>>, even |-> <<-1, 2>>]}

\* the loop of generateDemoData from iteration i on
RECURSIVE DemoLoop(_, _, _, _, _, _, _, _)
DemoLoop(i, currentValue, data, variance, min, max, rnd, at) ==
    IF i < 0 THEN data
    ELSE LET d == DrawOf(rnd, i)
             c == DemoWalk(currentValue, variance, min, max, d[1], d[2])
         IN DemoLoop(i - 1, c, Append(data, DemoPoint(c, i, at)),
                     variance, min, max, rnd, at)

\* generateDemoData(period, baseValue, variance, min, max), its arguments in
\* thousandths, run at time `at` with the random numbers of rnd
generateDemoData(period, baseValue, variance, min, max, rnd, at) ==
    DemoLoop(DemoDataPoints(period) - 1, baseValue, <<>>, variance, min, max, rnd, at)

\* the demo fallback of the history handler
DemoMetrics(period, rnd, at) ==
    [m \in FiveMetrics |->
        CASE m = "temperature" ->
                 generateDemoData(period, 24000, 3000, 18000, 35000, rnd, at)
          [] m = "humidity" ->
                 generateDemoData(period, 65000, 8000, 30000, 85000, rnd, at)
          [] m = "soil_moisture" ->
                 generateDemoData(period, 45000, 6000, 20000, 80000, rnd, at)
          [] m = "light_level" ->
                 generateDemoData(period, 1200000, 200000, 800000, 2000000, rnd, at)
          [] m = "co2_level" ->
                 generateDemoData(period, 420000, 30000, 380000, 500000, rnd, at)]

(* --------------------------------- stats -------------------------------- *)

RECURSIVE SumBag(_)
SumBag(B) ==
    IF DOMAIN B = {} THEN 0
    ELSE LET r == CHOOSE x \in DOMAIN B : TRUE
         IN r.value * B[r] + SumBag([x \in DOMAIN B \ {r} |-> B[x]])

\* SELECT metric_type, AVG(value), MIN(value), MAX(value), COUNT(*) ...
\* GROUP BY metric_type: one row per metric type among the selected rows.
\* avg_value is the exact quotient avg_num / data_points.
QueryAggregates(garden, since) ==
    LET sel == SelectRows(garden, since, "all")
        types == {r.metric_type : r \in DOMAIN sel}
        of(m) == [r \in {x \in DOMAIN sel : x.metric_type = m} |-> sel[r]]
    IN [m \in types |->
          [metric_type |-> m,
           avg_num |-> SumBag(of(m)),
           min_value |-> CHOOSE v \in {r.value : r \in DOMAIN of(m)} :
                             \A r \in DOMAIN of(m) : v <= r.value,
           max_value |-> CHOOSE v \in {r.value : r \in DOMAIN of(m)} :
                             \A r \in DOMAIN of(m) : v >= r.value,
           data_points |-> BagCardinality(of(m))]]

\* demoStats, in tenths
demoStats(period) ==
    LET n == IF period = "week" THEN 21 ELSE 90
    IN [m \in FiveMetrics |->
          CASE m = "temperature" ->
                   [average |-> 245, min |-> 182, max |-> 298, dataPoints |-> n]
            [] m = "humidity" ->
                   [average |-> 652, min |-> 451, max |-> 823, dataPoints |-> n]
            [] m = "soil_moisture" ->
                   [average |-> 478, min |-> 325, max |-> 689, dataPoints |-> n]
            [] m = "light_level" ->
                   [average |-> 12500, min |-> 8500, max |-> 18500, dataPoints |-> n]
            [] m = "co2_level" ->
                   [average |-> 4250, min |-> 3950, max |-> 4850, dataPoints |-> n]]

\* StatsOfRows over Object.assign(stats, demoStats): the metrics without
\* rows keep the entry of the fixed table
StatsOfRowsOverDemo(rows) ==
    [m \in FiveMetrics \cup DOMAIN rows |->
        IF m \in DOMAIN rows
        THEN [average |-> MathRound(rows[m].avg_num, 10 * rows[m].data_points),
              min |-> MathRound(rows[m].min_value, 10),
              max |-> MathRound(rows[m].max_value, 10),
              dataPoints |-> rows[m].data_points]
        ELSE demoStats("week")[m]]

\* the stats object built from the rows of the aggregate query, in tenths
StatsOfRows(rows) ==
    [m \in DOMAIN rows |->
        [average |-> MathRound(rows[m].avg_num, 10 * rows[m].data_points),
         min |-> MathRound(rows[m].min_value, 10),
         max |-> MathRound(rows[m].max_value, 10),
         dataPoints |-> rows[m].data_points]]

(* ------------------------- the request handlers ------------------------- *)

\* the metric filters of a history request
Filters == {"all", "temperature"}

\* no record request in flight.  A request in flight keeps its INSERTs that
\* have not settled (pending), how each of the others settled (settled:
\* TRUE for a stored row), and whether Promise.all has a rejection (failed).
IdleRec ==
    [phase |-> "idle", garden |-> 0, at |-> 0, pending |-> EmptyMap,
     settled |-> EmptyMap, failed |-> FALSE, count |-> 0]

\* a call of generateDemoData that is not running
IdleGen == [pc |-> "idle"]

\* a method of PredictionModels that is not being called
IdleCall == [pc |-> "idle"]

\* res and result while no handler has a response on its way out
NoResponse == [op |-> "none", success |-> FALSE]

\* (result of a handler that has replied: failed tells whether pool.query
\* rejected, queries how many times the handler called it)
NoResult == [op |-> "none", failed |-> FALSE]

\* a record request leaves the model once it has replied and every INSERT
\* it issued has settled.  The requests are served one at a time: the clock
\* advances and the next request starts when no request is in flight.
Settle(r) == IF r.phase = "replied" /\ DOMAIN r.pending = {} THEN IdleRec ELSE r

\* res.json(...) hands the response to the client: the response of the
\* last step leaves the server before anything else happens
Deliver ==
    /\ res # NoResponse
    /\ res' = NoResponse
    /\ result' = NoResult
    /\ UNCHANGED <<now, tz, store, rec, gen, pheno, disease>>

\* time passes
Tick ==
    /\ res = NoResponse
    /\ rec = IdleRec
    /\ \E d \in TickSteps :
          /\ now + d \in ClockValues
          /\ now' = now + d
    /\ UNCHANGED <<tz, store, rec, result, res, gen, pheno, disease>>

\* POST /analytics/record up to `await Promise.all(queries)`: one INSERT per
\* key of metrics is issued, all with the same timestamp now
RecordStart(gardenId, metrics) ==
    /\ res = NoResponse
    /\ rec.phase = "idle"
    /\ BagCardinality(store) + Cardinality(DOMAIN metrics) <= MaxRows
    /\ rec' = [phase |-> "awaiting", garden |-> gardenId, at |-> now,
               pending |-> metrics, settled |-> EmptyMap, failed |-> FALSE,
               count |-> Cardinality(DOMAIN metrics)]
    /\ UNCHANGED <<now, tz, store, result, res, gen, pheno, disease>>

\* the store executes one of the pending INSERTs of the record request
InsertRow(metricType) ==
    /\ res = NoResponse
    /\ metricType \in DOMAIN rec.pending
    /\ store' = store (+) SetToBag({[garden_id |-> rec.garden,
                                     metric_type |-> metricType,
                                     value |-> rec.pending[metricType],
                                     recorded_at |-> rec.at]})
    /\ rec' = Settle([rec EXCEPT !.pending =
                         [k \in DOMAIN rec.pending \ {metricType} |-> rec.pending[k]],
                      !.settled = rec.settled @@ (metricType :> TRUE)])
    /\ UNCHANGED <<now, tz, result, res, gen, pheno, disease>>

\* one of the pending INSERTs of the record request fails
InsertFails(metricType) ==
    /\ res = NoResponse
    /\ metricType \in DOMAIN rec.pending
    /\ rec' = Settle([rec EXCEPT !.pending =
                         [k \in DOMAIN rec.pending \ {metricType} |-> rec.pending[k]],
                      !.settled = rec.settled @@ (metricType :> FALSE),
                      !.failed = TRUE])
    /\ UNCHANGED <<now, tz, store, result, res, gen, pheno, disease>>

\* RecordReply over Promise.allSettled: the handler waits for every INSERT
\* and reports success whatever their outcomes
RecordReplyAllSettled ==
    /\ res = NoResponse
    /\ rec.phase = "awaiting"
    /\ DOMAIN rec.pending = {}
    /\ res' = [op |-> "record", success |-> TRUE, saved |-> rec.count,
               timestamp |-> rec.at]
    /\ result' = NoResult
    /\ rec' = Settle([rec EXCEPT !.phase = "replied"])
    /\ UNCHANGED <<now, tz, store, gen, pheno, disease>>

\* POST /analytics/record after the await: Promise.all has resolved (every
\* INSERT succeeded) or rejected (an INSERT failed)
RecordReply ==
    /\ res = NoResponse
    /\ rec.phase = "awaiting"
    /\ rec.failed \/ DOMAIN rec.pending = {}
    /\ res' = IF rec.failed
              THEN [op |-> "record", success |-> FALSE]
              ELSE [op |-> "record", success |-> TRUE, saved |-> rec.count,
                    timestamp |-> rec.at]
    /\ result' = NoResult
    /\ rec' = Settle([rec EXCEPT !.phase = "replied"])
    /\ UNCHANGED <<now, tz, store, gen, pheno, disease>>

\* HistoryResponse with a demo fallback that honours the metric filter
HistoryResponseFiltered(period, metric, startDate, rows, rnd) ==
    LET grouped == MetricsData(rows)
        demo == DemoMetrics(period, rnd, now)
        metricsData == IF DOMAIN grouped = {}
                       THEN IF metric = "all" THEN demo
                            ELSE [m \in {metric} |-> demo[m]]
                       ELSE grouped
    IN [op |-> "history", success |-> TRUE,
        metrics |-> metricsData, period |-> period,
        metric |-> metric, dataPoints |-> Len(rows),
        dateRange |-> [start |-> startDate, end |-> now]]

\* the response of the history handler to the rows of its query
HistoryResponse(period, metric, startDate, rows, rnd) ==
    LET grouped == MetricsData(rows)
        metricsData == IF DOMAIN grouped = {}
                       THEN DemoMetrics(period, rnd, now)
                       ELSE grouped
    IN [op |-> "history", success |-> TRUE,
        metrics |-> metricsData, period |-> period,
        metric |-> metric, dataPoints |-> Len(rows),
        dateRange |-> [start |-> startDate, end |-> now]]

\* GET /analytics/history, the query succeeding
History(gardenId, period, metric) ==
    LET startDate == HistoryStartDate(period, now)
    IN /\ res = NoResponse
       /\ rec = IdleRec
       /\ \E rows \in QueryReadings(gardenId, startDate, metric) :
          \E rnd \in IF rows = <<>> THEN RandomStreams
                     ELSE {CHOOSE r \in RandomStreams : TRUE} :
             /\ result' = [op |-> "history", failed |-> FALSE, queries |-> 1,
                           garden |-> gardenId,
                           since |-> startDate, metric |-> metric, rows |-> rows]
             /\ res' = HistoryResponse(period, metric, startDate, rows, rnd)
       /\ UNCHANGED <<now, tz, store, rec, gen, pheno, disease>>

\* HistoryFails with a catch block that runs the query a second time and,
\* when that fails too, answers with the demo series
HistoryFailsWithFallback(gardenId, period, metric) ==
    /\ res = NoResponse
    /\ rec = IdleRec
    /\ result' = [op |-> "history", failed |-> TRUE, queries |-> 2]
    /\ \E rnd \in RandomStreams :
          res' = HistoryResponse(period, metric, HistoryStartDate(period, now),
                                 <<>>, rnd)
    /\ UNCHANGED <<now, tz, store, rec, gen, pheno, disease>>

\* GET /analytics/history, pool.query rejecting: the catch block answers 500
HistoryFails(gardenId, period, metric) ==
    /\ res = NoResponse
    /\ rec = IdleRec
    /\ result' = [op |-> "history", failed |-> TRUE, queries |-> 1]
    /\ res' = [op |-> "history", success |-> FALSE]
    /\ UNCHANGED <<now, tz, store, rec, gen, pheno, disease>>

\* GET /analytics/stats, the query succeeding
Stats(gardenId, period) ==
    LET rows == QueryAggregates(gardenId, getStartDate(period, now))
    IN /\ res = NoResponse
       /\ rec = IdleRec
       /\ result' = [op |-> "stats", failed |-> FALSE, queries |-> 1,
                     garden |-> gardenId,
                     since |-> getStartDate(period, now), rows |-> rows]
       /\ res' = [op |-> "stats", success |-> TRUE,
                  stats |-> IF DOMAIN rows # {} THEN StatsOfRows(rows)
                            ELSE demoStats(period),
                  period |-> period]
       /\ UNCHANGED <<now, tz, store, rec, gen, pheno, disease>>

\* GET /analytics/stats, pool.query rejecting
StatsFails(gardenId, period) ==
    /\ res = NoResponse
    /\ rec = IdleRec
    /\ result' = [op |-> "stats", failed |-> TRUE, queries |-> 1]
    /\ res' = [op |-> "stats", success |-> FALSE]
    /\ UNCHANGED <<now, tz, store, rec, gen, pheno, disease>>

\* after initDatabase: the gardens of the model have no rows
Init ==
    /\ now = 1
    /\ tz \in TzOffsets
    /\ store = EmptyBag
    /\ rec = IdleRec
    /\ result = NoResult
    /\ res = NoResponse
    /\ gen = IdleGen
    /\ pheno = IdleCall
    /\ disease = IdleCall

Next ==
    \/ Deliver
    \/ Tick
    \/ \E r \in RecordRequests : RecordStart(r.gardenId, r.metrics)
    \/ \E m \in RecMetrics : InsertRow(m)
    \/ \E m \in RecMetrics : InsertFails(m)
    \/ RecordReply
    \/ \E g \in ReadGardens, p \in Periods, f \in Filters : History(g, p, f)
    \/ \E g \in ReadGardens, p \in Periods, f \in Filters : HistoryFails(g, p, f)
    \/ \E g \in ReadGardens, p \in Periods : Stats(g, p)
    \/ \E g \in ReadGardens, p \in Periods : StatsFails(g, p)

Spec == Init /\ [][Next]_vars

(* ------------------- generateDemoData, iteration by iteration ----------- *)

\* the arguments (baseValue, variance, min, max) of the five calls of the
\* history handler, in thousandths
HandlerArgs ==
    {[baseValue |-> 24000, variance |-> 3000, min |-> 18000, max |-> 35000],
     [baseValue |-> 65000, variance |-> 8000, min |-> 30000, max |-> 85000],
     [baseValue |-> 45000, variance |-> 6000, min |-> 20000, max |-> 80000],
     [baseValue |-> 1200000, variance |-> 200000, min |-> 800000, max |-> 2000000],
     [baseValue |-> 420000, variance |-> 30000, min |-> 380000, max |-> 500000]}

\* further arguments with min <= max: baseValue below min, baseValue above
\* max, min = max, and bounds that are not multiples of 0.1
OtherArgs ==
    {[baseValue |-> 10000, variance |-> 3000, min |-> 18000, max |-> 35000],
     [baseValue |-> 40000, variance |-> 3000, min |-> 18000, max |-> 35000],
     [baseValue |-> 24000, variance |-> 3000, min |-> 20000, max |-> 20000],
     [baseValue |-> 18500, variance |-> 1000, min |-> 18040, max |-> 18960]}

\* the calls of generateDemoData the model makes
GenCalls ==
    {[period |-> p, args |-> a] : p \in Periods, a \in HandlerArgs}
        \cup {[period |-> "week", args |-> a] : a \in OtherArgs}

\* generateDemoData before its loop: i = dataPoints - 1, currentValue =
\* baseValue, data = [].  Of data the model keeps the length and the value
\* of the point pushed last.
GenStart(call) ==
    [pc |-> "loop", period |-> call.period, args |-> call.args,
     i |-> DemoDataPoints(call.period) - 1,
     currentValue |-> call.args.baseValue,
     data |-> [length |-> 0, last |-> 0]]

\* one iteration of the for loop of generateDemoData
GenIterate ==
    /\ gen.pc = "loop"
    /\ gen.i >= 0
    /\ \E dt \in Draws, dc \in Draws :
          LET c == DemoWalk(gen.currentValue, gen.args.variance, gen.args.min,
                            gen.args.max, dt, dc)
          IN gen' = [gen EXCEPT !.currentValue = c,
                                !.data = [length |-> @.length + 1,
                                          last |-> DemoPoint(c, gen.i, now).value],
                                !.i = @ - 1]
    /\ UNCHANGED <<now, tz, store, rec, result, res, pheno, disease>>

\* the loop ends and generateDemoData returns data
GenReturn ==
    /\ gen.pc = "loop"
    /\ gen.i < 0
    /\ gen' = [gen EXCEPT !.pc = "returned"]
    /\ UNCHANGED <<now, tz, store, rec, result, res, pheno, disease>>

InitDemo ==
    /\ now = 1
    /\ tz = 0
    /\ store = EmptyBag
    /\ rec = IdleRec
    /\ result = NoResult
    /\ res = NoResponse
    /\ gen \in {GenStart(call) : call \in GenCalls}
    /\ pheno = IdleCall
    /\ disease = IdleCall

NextDemo == GenIterate \/ GenReturn

SpecDemo == InitDemo /\ [][NextDemo]_vars

(* ----------------- PredictionModels.predictPhenologicalPhase ------------ *)

\* Temperatures are whole degrees; gdd, a sum of halves of degrees, is kept
\* doubled (in half degree-days) and the thresholds are doubled where they
\* are compared with it.  progress is the exact fraction num / den, den > 0.

\* const baseTemp = 10
baseTemp == 10

\* the phases object in the order Object.entries enumerates it (integer
\* keys ascending).  The phase names of the source are Russian; the names
\* here are the English ones of the stage table: 'Pokoy' is "dormant",
\* 'Tsvetenie' is "bloom", 'Formirovanie yagod' is "berry set",
\* 'Polnaya zrelost' is "full maturity".
phases ==
    <<[threshold |-> 0, phase |-> "dormant"],
      [threshold |-> 100, phase |-> "bud swell"],
      [threshold |-> 200, phase |-> "bud break"],
      [threshold |-> 300, phase |-> "leaf emergence"],
      [threshold |-> 500, phase |-> "bloom"],
      [threshold |-> 800, phase |-> "berry set"],
      [threshold |-> 1200, phase |-> "veraison"],
      [threshold |-> 1600, phase |-> "full maturity"]>>

\* AccumulateGdd without the test avgTemp > baseTemp: a cold day subtracts
RECURSIVE AccumulateGddUnguarded(_, _)
AccumulateGddUnguarded(weatherData, i) ==
    IF i > Len(weatherData) THEN 0
    ELSE (weatherData[i].maxTemp + weatherData[i].minTemp - 2 * baseTemp)
             + AccumulateGddUnguarded(weatherData, i + 1)

\* AccumulateGdd adding avgTemp instead of avgTemp - baseTemp
RECURSIVE AccumulateGddNoBase(_, _)
AccumulateGddNoBase(weatherData, i) ==
    IF i > Len(weatherData) THEN 0
    ELSE LET avgTemp2 == weatherData[i].maxTemp + weatherData[i].minTemp
         IN (IF avgTemp2 > 2 * baseTemp THEN avgTemp2 ELSE 0)
                + AccumulateGddNoBase(weatherData, i + 1)

\* the weatherData.forEach loop from day i on: a day adds avgTemp - baseTemp
\* when avgTemp = (maxTemp + minTemp) / 2 is above baseTemp (doubled)
RECURSIVE AccumulateGdd(_, _)
AccumulateGdd(weatherData, i) ==
    IF i > Len(weatherData) THEN 0
    ELSE LET avgTemp2 == weatherData[i].maxTemp + weatherData[i].minTemp
         IN (IF avgTemp2 > 2 * baseTemp THEN avgTemp2 - 2 * baseTemp ELSE 0)
                + AccumulateGdd(weatherData, i + 1)

\* PhaseLoop measuring progress from 0 instead of the previous threshold
RECURSIVE PhaseLoopFromZero(_, _, _)
PhaseLoopFromZero(gdd2, k, st) ==
    IF k > Len(phases) THEN st
    ELSE IF gdd2 >= 2 * phases[k].threshold
         THEN PhaseLoopFromZero(gdd2, k + 1,
                                [st EXCEPT !.currentPhase = phases[k].phase])
         ELSE [st EXCEPT !.nextPhase = phases[k].phase,
                         !.progress = [num |-> gdd2 * 100,
                                       den |-> 2 * phases[k].threshold]]

\* the for ... of loop over the phases from entry k on; st holds
\* currentPhase, nextPhase and progress
RECURSIVE PhaseLoop(_, _, _)
PhaseLoop(gdd2, k, st) ==
    IF k > Len(phases) THEN st
    ELSE IF gdd2 >= 2 * phases[k].threshold
         THEN PhaseLoop(gdd2, k + 1, [st EXCEPT !.currentPhase = phases[k].phase])
         ELSE LET prevThreshold == IF k = 1 THEN 0 ELSE phases[k - 1].threshold
              IN [st EXCEPT !.nextPhase = phases[k].phase,
                            !.progress =
                                [num |-> (gdd2 - 2 * prevThreshold) * 100,
                                 den |-> 2 * (phases[k].threshold - prevThreshold)]]

\* Math.min(100, Math.max(0, progress))
ClampProgress(progress) ==
    IF progress.num < 0 THEN [num |-> 0, den |-> 1]
    ELSE IF progress.num > 100 * progress.den THEN [num |-> 100, den |-> 1]
    ELSE progress

\* Math.ceil(num / den) for den > 0
MathCeil(num, den) == -((-num) \div den)

\* Object.keys(phases).find(k => phases[k] === nextPhase)
ThresholdOf(phase) ==
    phases[CHOOSE k \in 1..Len(phases) :
               /\ phases[k].phase = phase
               /\ \A j \in 1..(k - 1) : phases[j].phase # phase].threshold

predictPhenologicalPhase(weatherData) ==
    LET gdd2 == AccumulateGdd(weatherData, 1)
        st == PhaseLoop(gdd2, 1,
                        [currentPhase |-> "dormant", nextPhase |-> "bud swell",
                         progress |-> [num |-> 0, den |-> 1]])
    IN [currentPhase |-> st.currentPhase,
        nextPhase |-> st.nextPhase,
        progress |-> ClampProgress(st.progress),
        gdd |-> gdd2,
        daysToNextPhase |-> MathCeil(2 * ThresholdOf(st.nextPhase) - gdd2, 20)]

\* the longest daily series passed to the model
MaxDays == 100

\* the (maxTemp, minTemp) of a day: means 20, 10, 1, 10.5, 35 and 15.5
DayTemps ==
    {[maxTemp |-> 25, minTemp |-> 15], [maxTemp |-> 12, minTemp |-> 8],
     [maxTemp |-> 5, minTemp |-> -3], [maxTemp |-> 11, minTemp |-> 10],
     [maxTemp |-> 40, minTemp |-> 30], [maxTemp |-> 21, minTemp |-> 10]}

\* the daily series passed to the model: every series of up to two days, and
\* the series of up to MaxDays days that repeat one day
WeatherSeries ==
    {[i \in 1..n |-> d] : n \in 0..MaxDays, d \in DayTemps}
        \cup {<<d1, d2>> : d1 \in DayTemps, d2 \in DayTemps}

\* predictPhenologicalPhase(weatherData, cropType) runs and returns
PredictPhase ==
    /\ pheno.pc = "called"
    /\ pheno' = [pc |-> "returned", weatherData |-> pheno.weatherData,
                 ret |-> predictPhenologicalPhase(pheno.weatherData)]
    /\ UNCHANGED <<now, tz, store, rec, result, res, gen, disease>>

InitPheno ==
    /\ now = 1
    /\ tz = 0
    /\ store = EmptyBag
    /\ rec = IdleRec
    /\ result = NoResult
    /\ res = NoResponse
    /\ gen = IdleGen
    /\ pheno \in {[pc |-> "called", weatherData |-> w] : w \in WeatherSeries}
    /\ disease = IdleCall

NextPheno == PredictPhase

SpecPheno == InitPheno /\ [][NextPheno]_vars

(* ------------------- PredictionModels.predictDiseaseRisk ---------------- *)

\* temperature, humidity and leafWetness are in tenths; a riskScore and a
\* probability are in hundredths.

\* (humidity - 85) * 0.1 + (leafWetness / 10)
ScabScore(humidity, leafWetness) == (humidity - 850) + leafWetness

\* (weatherData.temperature - 15) * 0.5 + (humidity - 70) * 0.3
MildewScore(temperature, humidity) == (temperature - 150) * 5 + (humidity - 700) * 3

\* ScabRisk with the probability taken as riskScore * 100
ScabRiskPercent(humidity, leafWetness) ==
    LET riskScore == ScabScore(humidity, leafWetness)
    IN [disease |-> "scab",
        riskLevel |-> IF riskScore > 700 THEN "high"
                      ELSE IF riskScore > 400 THEN "medium" ELSE "low",
        probability |-> MinOf(9500, riskScore * 100),
        recommendation |-> IF riskScore > 700 THEN "urgent fungicide treatment"
                           ELSE "preventive treatment"]

\* the finding pushed by the first if ('Parsha', scab)
ScabRisk(humidity, leafWetness) ==
    LET riskScore == ScabScore(humidity, leafWetness)
    IN [disease |-> "scab",
        riskLevel |-> IF riskScore > 700 THEN "high"
                      ELSE IF riskScore > 400 THEN "medium" ELSE "low",
        probability |-> MinOf(9500, riskScore * 10),
        recommendation |-> IF riskScore > 700 THEN "urgent fungicide treatment"
                           ELSE "preventive treatment"]

\* the finding pushed by the second if ('Muchnistaya rosa', powdery mildew)
MildewRisk(temperature, humidity) ==
    LET riskScore == MildewScore(temperature, humidity)
    IN [disease |-> "powdery mildew",
        riskLevel |-> IF riskScore > 600 THEN "high"
                      ELSE IF riskScore > 300 THEN "medium" ELSE "low",
        probability |-> MinOf(9000, riskScore * 12),
        recommendation |-> "sulphur treatment"]

\* predictDiseaseRisk with the second rule in an else branch of the first
predictDiseaseRiskElseIf(temperature, humidity, leafWetness) ==
    IF humidity > 900 /\ temperature > 100 /\ temperature < 250
    THEN <<ScabRisk(humidity, leafWetness)>>
    ELSE IF temperature > 150 /\ temperature < 300 /\ humidity > 700
         THEN <<MildewRisk(temperature, humidity)>>
         ELSE <<>>

predictDiseaseRisk(temperature, humidity, leafWetness) ==
    LET risks0 == <<>>
        risks1 == IF humidity > 900 /\ temperature > 100 /\ temperature < 250
                  THEN Append(risks0, ScabRisk(humidity, leafWetness))
                  ELSE risks0
        risks2 == IF temperature > 150 /\ temperature < 300 /\ humidity > 700
                  THEN Append(risks1, MildewRisk(temperature, humidity))
                  ELSE risks1
    IN risks2

\* the arguments of the calls, in tenths: the values at, just below and just
\* above every threshold of the two rules
Temperatures == {50, 100, 101, 150, 151, 200, 249, 250, 299, 300, 350}

Humidities == {500, 700, 701, 850, 900, 901, 950, 1000}

LeafWetnesses == {0, 80, 1000}

\* predictDiseaseRisk(weatherData, humidity, leafWetness) runs and returns
PredictRisk ==
    /\ disease.pc = "called"
    /\ disease' = [disease EXCEPT !.pc = "returned",
                                  !.ret = predictDiseaseRisk(disease.temperature,
                                                             disease.humidity,
                                                             disease.leafWetness)]
    /\ UNCHANGED <<now, tz, store, rec, result, res, gen, pheno>>

InitDisease ==
    /\ now = 1
    /\ tz = 0
    /\ store = EmptyBag
    /\ rec = IdleRec
    /\ result = NoResult
    /\ res = NoResponse
    /\ gen = IdleGen
    /\ pheno = IdleCall
    /\ disease \in {[pc |-> "called", temperature |-> t, humidity |-> h,
                     leafWetness |-> w, ret |-> <<>>] :
                        t \in Temperatures, h \in Humidities, w \in LeafWetnesses}

NextDisease == PredictRisk

SpecDisease == InitDisease /\ [][NextDisease]_vars

(* ======================================================================== *)
(*                               The claims                                 *)
(* ======================================================================== *)

\* the last step was a history request that succeeded
HistoryReplied == res.op = "history" /\ res.success

\* the last step was a stats request that succeeded
StatsReplied == res.op = "stats" /\ res.success

\* v (tenths) is the quotient sum / n (hundredths) rounded to one decimal,
\* whichever way a tie is broken: |10 * sum / (100 * n) - v| <= 1/2
RoundsTo(v, sum, n) ==
    /\ (2 * v - 1) * 5 * n <= sum
    /\ sum <= (2 * v + 1) * 5 * n

\* the sum of the values of the rows with the indices idx
RECURSIVE SumRows(_, _)
SumRows(rows, idx) ==
    IF idx = {} THEN 0
    ELSE LET i == CHOOSE j \in idx : TRUE
         IN rows[i].value + SumRows(rows, idx \ {i})

\* the returned rows of metric m whose recorded_at has the ISO (UTC) date d,
\* which is the date the history handler files a row under
BucketRows(rows, m, d) ==
    {i \in 1..Len(rows) : rows[i].metric_type = m /\ ISODate(rows[i].recorded_at) = d}

GardenRows(g) == [r \in {x \in BagToSet(store) : x.garden_id = g} |-> store[r]]

\* the store holds N >= 1 readings of garden g, all of metric m and all
\* recorded on the local calendar day d, and nothing else for that garden
OneMetricOneDay(g, m, d) ==
    /\ DOMAIN GardenRows(g) # {}
    /\ \A r \in DOMAIN GardenRows(g) :
          r.metric_type = m /\ LocalDate(r.recorded_at) = d

\* C2: round trip.  After N >= 1 readings of one metric have been recorded
\* for a garden on one calendar day and nothing else for that garden, a
\* history request whose period covers them returns for that metric exactly
\* one point whose value is the mean of the N inputs rounded to one decimal,
\* and the request repeated against the same store yields the same series.
C2_RoundTrip ==
    \A m \in RecMetrics, d \in {LocalDate(t) : t \in ClockValues} :
       (/\ HistoryReplied
        /\ OneMetricOneDay(result.garden, m, d)
        /\ result.metric \in {"all", m}
        /\ \A r \in DOMAIN GardenRows(result.garden) : r.recorded_at >= result.since)
       =>
       (/\ m \in DOMAIN res.metrics
        /\ Len(res.metrics[m]) = 1
        /\ RoundsTo(res.metrics[m][1].value, SumBag(GardenRows(result.garden)),
                    BagCardinality(GardenRows(result.garden)))
        /\ \A rows \in QueryReadings(result.garden, result.since, result.metric) :
              \A rnd \in RandomStreams :
                 HistoryResponse(res.period, result.metric, result.since, rows, rnd).metrics
                     = res.metrics)

\* C2 holds when the server's zone is UTC, where the local calendar day is
\* the ISO date the handler groups by
C2_RoundTripInUTC == (tz = 0) => C2_RoundTrip

(* ------------------------------------------------------------------------ *)
\* the bounds (min, max) of the demo series of a metric, in tenths
DemoRange(m) ==
    CASE m = "temperature" -> <<180, 350>>
      [] m = "humidity" -> <<300, 850>>
      [] m = "soil_moisture" -> <<200, 800>>
      [] m = "light_level" -> <<8000, 20000>>
      [] m = "co2_level" -> <<3800, 5000>>

\* series is a series generateDemoData made at time `at` for period p and
\* metric m: one point a day up to today, every value within the bounds
IsDemoSeries(series, m, p, at) ==
    /\ Len(series) = DemoDataPoints(p)
    /\ \A k \in 1..Len(series) :
          /\ series[k].timestamp = at - (Len(series) - k) * UnitsPerDay
          /\ series[k].date = ISODate(series[k].timestamp)
          /\ DemoRange(m)[1] <= series[k].value
          /\ series[k].value <= DemoRange(m)[2]

\* C3: on every successful history request, if the query returned no row the
\* metrics are exactly the five fixed metrics, each with a synthetic series,
\* whatever the metric filter; if it returned rows, the metrics are metrics
\* of returned rows and every point comes from a returned row (no synthetic
\* series).  The metrics mapping is never empty.
C3_FallbackOnlyWithoutRows ==
    HistoryReplied =>
        /\ DOMAIN res.metrics # {}
        /\ (result.rows = <<>>) =>
              /\ DOMAIN res.metrics = FiveMetrics
              /\ \A m \in FiveMetrics :
                    IsDemoSeries(res.metrics[m], m, res.period, res.dateRange.end)
        /\ (result.rows # <<>>) =>
              \A m \in DOMAIN res.metrics :
                 \A k \in 1..Len(res.metrics[m]) :
                    \E i \in 1..Len(result.rows) :
                       /\ result.rows[i].metric_type = m
                       /\ result.rows[i].recorded_at = res.metrics[m][k].timestamp
                       /\ ISODate(result.rows[i].recorded_at) = res.metrics[m][k].date

\* C3 witness: a request filtered on temperature whose query returns no row
\* although the garden has rows in the store, answered with five metrics
C3_Witness ==
    /\ HistoryReplied
    /\ result.metric = "temperature"
    /\ result.rows = <<>>
    /\ DOMAIN GardenRows(result.garden) # {}
    /\ DOMAIN res.metrics = FiveMetrics

(* ------------------------------------------------------------------------ *)
\* C4: for every period value, generateDemoData returns a series of exactly
\* 7 points when the period is 'week' and of exactly 30 points for any
\* other period value ('month', 'quarter', an unrecognized token).
C4_SeriesLength ==
    (gen.pc = "returned") =>
        gen.data.length = (IF gen.period = "week" THEN 7 ELSE 30)

\* C4 witness: a call with an unrecognized period has returned 30 points
C4_Witness ==
    /\ gen.pc = "returned"
    /\ gen.period \notin {"week", "month", "quarter"}
    /\ gen.data.length = 30

(* ------------------------------------------------------------------------ *)
\* C5 as stated: for every call with min <= max and every sequence of
\* draws, every emitted point satisfies min <= value <= max.  (The value of
\* a point is in tenths, min and max in thousandths.)
C5_ValueWithinMinMax ==
    (gen.pc # "idle" /\ gen.data.length > 0) =>
        /\ gen.args.min <= 100 * gen.data.last
        /\ 100 * gen.data.last <= gen.args.max

\* C5 as amended: for every call with min <= max and every sequence of
\* draws, after every iteration currentValue lies in [min, max], also when
\* baseValue does not, and the emitted value, which is currentValue rounded
\* to one decimal, lies between min and max rounded to one decimal; so
\* min <= value <= max holds whenever min and max are multiples of 0.1.
C5_WalkWithinMinMax ==
    (gen.pc # "idle" /\ gen.data.length > 0) =>
        /\ gen.args.min <= gen.currentValue
        /\ gen.currentValue <= gen.args.max
        /\ MathRound(gen.args.min, 100) <= gen.data.last
        /\ gen.data.last <= MathRound(gen.args.max, 100)
        /\ (gen.args.min % 100 = 0 /\ gen.args.max % 100 = 0) =>
              /\ gen.args.min <= 100 * gen.data.last
              /\ 100 * gen.data.last <= gen.args.max

\* C5 witness: a walk that started above max has emitted a point at max
C5_Witness ==
    /\ gen.pc = "loop"
    /\ gen.args.baseValue > gen.args.max
    /\ gen.data.length > 0
    /\ 100 * gen.data.last = gen.args.max

(* ------------------------------------------------------------------------ *)
\* the period tokens the code recognizes
KnownPeriods == {"week", "month", "quarter"}

\* C6: an unrecognized period token is treated as 'week'.  A history or
\* stats request with such a token gives what the same request with period
\* 'week' gives: the same start of the time window and, in the fallback
\* path, synthetic series of the same length and the same dataPoints.
C6_UnknownPeriodAsWeek ==
    /\ (HistoryReplied /\ res.period \notin KnownPeriods) =>
          /\ res.dateRange.start = HistoryStartDate("week", res.dateRange.end)
          /\ (result.rows = <<>>) =>
                \A m \in DOMAIN res.metrics :
                   Len(res.metrics[m]) = DemoDataPoints("week")
    /\ (StatsReplied /\ res.period \notin KnownPeriods) =>
          /\ result.since = getStartDate("week", now)
          /\ (DOMAIN result.rows = {}) =>
                \A m \in DOMAIN res.stats :
                   res.stats[m].dataPoints = demoStats("week")[m].dataPoints

(* ------------------------------------------------------------------------ *)
\* the daily series has n days, each of mean temperature t
UniformSeries(weatherData, n, t) ==
    /\ Len(weatherData) = n
    /\ \A i \in 1..n : weatherData[i].maxTemp + weatherData[i].minTemp = 2 * t

\* C7 as stated: a series of 100 days of mean 20 yields gdd = 1000,
\* currentPhase = "bloom" and a progress strictly between 0 and 100.
\* (gdd is in half degree-days.)
C7_HundredDaysBloom ==
    (pheno.pc = "returned" /\ UniformSeries(pheno.weatherData, 100, 20)) =>
        /\ pheno.ret.gdd = 2 * 1000
        /\ pheno.ret.currentPhase = "bloom"
        /\ 0 < pheno.ret.progress.num
        /\ pheno.ret.progress.num < 100 * pheno.ret.progress.den

\* C7 as amended: a series of 100 days of mean 20 yields gdd = 1000,
\* currentPhase = "berry set" (the stage of threshold 800, the highest
\* threshold <= 1000) and a progress strictly between 0 and 100.
C7_HundredDaysBerrySet ==
    (pheno.pc = "returned" /\ UniformSeries(pheno.weatherData, 100, 20)) =>
        /\ pheno.ret.gdd = 2 * 1000
        /\ pheno.ret.currentPhase = "berry set"
        /\ 0 < pheno.ret.progress.num
        /\ pheno.ret.progress.num < 100 * pheno.ret.progress.den

\* C7 witness: the model has returned for 100 days of 25 / 15 degrees
C7_Witness ==
    /\ pheno.pc = "returned"
    /\ UniformSeries(pheno.weatherData, 100, 20)
    /\ pheno.weatherData[1].maxTemp = 25

(* ------------------------------------------------------------------------ *)
\* no day of the series has a mean temperature above 10
NoWarmDay(weatherData) ==
    \A i \in 1..Len(weatherData) :
       weatherData[i].maxTemp + weatherData[i].minTemp <= 2 * 10

\* C8: for every series without a day of mean temperature above 10, the
\* empty series included, the model returns gdd = 0, currentPhase = the
\* first stage ("dormant") and progress = 0.
C8_NoWarmDayDormant ==
    (pheno.pc = "returned" /\ NoWarmDay(pheno.weatherData)) =>
        /\ pheno.ret.gdd = 0
        /\ pheno.ret.currentPhase = phases[1].phase
        /\ pheno.ret.currentPhase = "dormant"
        /\ pheno.ret.progress.num = 0
        /\ pheno.ret.progress.den > 0

\* C8 witness: the model has returned for a series of cold days, one of
\* them of mean exactly 10 and one below
C8_Witness ==
    /\ pheno.pc = "returned"
    /\ NoWarmDay(pheno.weatherData)
    /\ \E i, j \in 1..Len(pheno.weatherData) :
          /\ pheno.weatherData[i].maxTemp + pheno.weatherData[i].minTemp = 20
          /\ pheno.weatherData[j].maxTemp + pheno.weatherData[j].minTemp < 20

(* ------------------------------------------------------------------------ *)
\* the call assess(temperature = 20, humidity = 95, leafWetness = 8)
DiseaseExample ==
    /\ disease.pc = "returned"
    /\ disease.temperature = 200
    /\ disease.humidity = 950
    /\ disease.leafWetness = 80

\* C9 as stated: temperature = 20, humidity = 95, leafWetness = 8 returns
\* exactly two findings, Rule A (scab) first with riskLevel = "high" and
\* probability = 18, then Rule B (powdery mildew).
C9_ExampleHighRisk ==
    DiseaseExample =>
        /\ Len(disease.ret) = 2
        /\ disease.ret[1].disease = "scab"
        /\ disease.ret[1].riskLevel = "high"
        /\ disease.ret[1].probability = 1800
        /\ disease.ret[2].disease = "powdery mildew"

\* C9 as amended: temperature = 20, humidity = 95, leafWetness = 8 returns
\* exactly two findings, Rule A (scab) first with riskLevel = "low" (the
\* score is 1.8, not above 4) and probability = 18, then Rule B (powdery
\* mildew).
C9_ExampleLowRisk ==
    DiseaseExample =>
        /\ Len(disease.ret) = 2
        /\ disease.ret[1].disease = "scab"
        /\ disease.ret[1].riskLevel = "low"
        /\ disease.ret[1].probability = 1800
        /\ disease.ret[2].disease = "powdery mildew"

\* C9 witness: the example call has returned
C9_Witness == DiseaseExample /\ disease.ret # <<>>

(* ------------------------------------------------------------------------ *)
\* the condition of Rule A and of Rule B, the arguments in tenths
RuleA(temperature, humidity) ==
    humidity > 900 /\ 100 < temperature /\ temperature < 250

RuleB(temperature, humidity) ==
    150 < temperature /\ temperature < 300 /\ humidity > 700

\* the positions of the findings of a disease in the result
FindingsOf(ret, name) == {k \in 1..Len(ret) : ret[k].disease = name}

\* C10: for all inputs the result holds a Rule A finding iff humidity > 90
\* and 10 < temperature < 25, a Rule B finding iff 15 < temperature < 30 and
\* humidity > 70, at most one finding of each rule and nothing else, and the
\* Rule A finding comes before the Rule B finding when both are present.
C10_RulesIndependent ==
    (disease.pc = "returned") =>
        LET a == FindingsOf(disease.ret, "scab")
            b == FindingsOf(disease.ret, "powdery mildew")
        IN /\ Cardinality(a) = (IF RuleA(disease.temperature, disease.humidity)
                                THEN 1 ELSE 0)
           /\ Cardinality(b) = (IF RuleB(disease.temperature, disease.humidity)
                                THEN 1 ELSE 0)
           /\ Len(disease.ret) = Cardinality(a) + Cardinality(b)
           /\ \A i \in a, j \in b : i < j

\* C10 witness: a call in which Rule A alone triggers has returned
C10_Witness ==
    /\ disease.pc = "returned"
    /\ RuleA(disease.temperature, disease.humidity)
    /\ ~RuleB(disease.temperature, disease.humidity)
    /\ Len(disease.ret) = 1

(* ------------------------------------------------------------------------ *)
\* the rows of garden g recorded at or after `since`, as a set of rows
InRange(g, since) ==
    {r \in BagToSet(store) : r.garden_id = g /\ r.recorded_at >= since}

\* the number of days of the window of a stats request
WindowDays(period) ==
    CASE period = "month" -> 30
      [] period = "quarter" -> 90
      [] OTHER -> 7

\* the sum and the number of the in-range readings of metric m of garden g
SumOfMetric(g, since, m) ==
    SumBag([r \in {x \in InRange(g, since) : x.metric_type = m} |-> store[r]])

CountOfMetric(g, since, m) ==
    BagCardinality([r \in {x \in InRange(g, since) : x.metric_type = m} |-> store[r]])

\* C11: on every successful stats request, if the store holds a reading of
\* the garden inside the period, the stats hold exactly the metrics that
\* have in-range readings, each with the average, the minimum and the
\* maximum of its in-range values rounded to one decimal and dataPoints
\* their count, and nothing of the fixed table; if the store holds no
\* in-range reading, the stats are the fixed five-metric table with
\* dataPoints 21 for period 'week' and 90 for any other period.
C11_StatsSummary ==
    StatsReplied =>
        LET g == result.garden
            since == now - WindowDays(res.period) * UnitsPerDay
            rows == InRange(g, since)
        IN /\ (rows # {}) =>
                 /\ DOMAIN res.stats = {r.metric_type : r \in rows}
                 /\ \A m \in DOMAIN res.stats :
                       LET vals == {r.value : r \in {x \in rows : x.metric_type = m}}
                       IN /\ RoundsTo(res.stats[m].average,
                                      SumOfMetric(g, since, m), CountOfMetric(g, since, m))
                          /\ res.stats[m].dataPoints = CountOfMetric(g, since, m)
                          /\ \E v \in vals :
                                /\ \A w \in vals : v <= w
                                /\ RoundsTo(res.stats[m].min, v, 1)
                          /\ \E v \in vals :
                                /\ \A w \in vals : v >= w
                                /\ RoundsTo(res.stats[m].max, v, 1)
           /\ (rows = {}) =>
                 /\ DOMAIN res.stats = FiveMetrics
                 /\ \A m \in FiveMetrics :
                       /\ res.stats[m].dataPoints
                              = (IF res.period = "week" THEN 21 ELSE 90)
                       /\ res.stats[m].min <= res.stats[m].average
                       /\ res.stats[m].average <= res.stats[m].max
                 /\ res.stats["temperature"].average = 245
                 /\ res.stats["co2_level"].max = 4850

\* C11 witness: stats of a garden with two in-range readings of one metric
\* (24.45 and -0.15) and none of the others: average 12.2, min -0.1 or
\* -0.2, max 24.5, dataPoints 2
C11_Witness ==
    /\ StatsReplied
    /\ DOMAIN res.stats = {"temperature"}
    /\ res.stats["temperature"].dataPoints = 2
    /\ res.stats["temperature"].average = 122
    /\ res.stats["temperature"].max = 245
    /\ res.stats["temperature"].min < 0

(* ------------------------------------------------------------------------ *)
\* the step is the reply of the record request in flight
RecordReplies == res.op = "none" /\ res'.op = "record"

\* the store holds a row of the record request in flight for metric m
StoredOf(m) ==
    \E r \in BagToSet(store) :
       r.garden_id = rec.garden /\ r.metric_type = m /\ r.recorded_at = rec.at

\* C12: the INSERTs of a record request settle in any order and with any
\* outcomes, and the request replies once.  A reply that reports success
\* comes when every INSERT of the request has settled and every one of them
\* stored its row; when an INSERT of the request has failed the reply is
\* the error response, which carries nothing but the failure (no count, no
\* timestamp, no data), whether or not other INSERTs of the request have
\* stored their rows, and the rows they stored stay in the store.
C12_SuccessOnlyIfAllStored ==
    [][RecordReplies =>
          /\ rec.phase = "awaiting"
          /\ rec'.phase # "awaiting"
          /\ store' = store
          /\ res'.success =>
                /\ DOMAIN rec.pending = {}
                /\ Cardinality(DOMAIN rec.settled) = rec.count
                /\ res'.saved = rec.count
                /\ \A m \in DOMAIN rec.settled : rec.settled[m] /\ StoredOf(m)
          /\ (\E m \in DOMAIN rec.settled : ~rec.settled[m]) =>
                /\ ~res'.success
                /\ DOMAIN res' = {"op", "success"}
          /\ \A m \in DOMAIN rec.settled : rec.settled[m] => StoredOf(m)]_vars

\* C12 witness: the error response to the request {temperature: 24.45,
\* humidity: -0.15} whose humidity row is stored, the only row of the store
C12_Witness ==
    /\ res.op = "record"
    /\ ~res.success
    /\ BagCardinality(store) = 1
    /\ \E r \in BagToSet(store) :
          r.garden_id = 2 /\ r.metric_type = "humidity" /\ r.value = -15
              /\ r.recorded_at = now

(* ------------------------------------------------------------------------ *)
\* the response is the bare error response: success false and the message
ErrorResponse == ~res.success /\ DOMAIN res = {"op", "success"}

\* a series holds a point that stems from no stored reading
HasSyntheticPoint(series, m) ==
    \E k \in 1..Len(series) :
       ~\E r \in BagToSet(store) :
            r.metric_type = m /\ r.recorded_at = series[k].timestamp

\* C13: when the query of a history request or of a stats request fails,
\* the handler has run the query once and the response is the bare error
\* response (no series, no statistics, no synthetic data); a response with
\* synthetic series or with the fixed statistics table comes only from a
\* query that succeeded and returned no row.
C13_FailedQueryBareError ==
    /\ (result.op \in {"history", "stats"}) =>
          /\ result.queries = 1
          /\ res.op = result.op
          /\ result.failed => ErrorResponse
          /\ ~result.failed => res.success
    /\ (HistoryReplied
           /\ \E m \in DOMAIN res.metrics : HasSyntheticPoint(res.metrics[m], m)) =>
          /\ ~result.failed
          /\ result.rows = <<>>
    /\ (StatsReplied /\ \E p \in Periods : res.stats = demoStats(p)) =>
          /\ ~result.failed
          /\ DOMAIN result.rows = {}

\* C13 witness: the query of a history request has failed while the store
\* holds readings, and the response is the error response
C13_Witness ==
    /\ result.op = "history"
    /\ result.failed
    /\ ErrorResponse
    /\ store # EmptyBag

(* ------------------------------------------------------------------------ *)
\* the metrics of the returned rows
MetricsOf(rows) == {rows[i].metric_type : i \in 1..Len(rows)}

\* the members of the buckets of the points of the response when a row is
\* filed under date(recorded_at): <<m, k, i>> for the returned row i in the
\* bucket of point k of the series of metric m.  The sizes of the buckets
\* add up to the number of members.
BucketMembers(date(_)) ==
    {t \in UNION {{<<m, k, i>> : k \in 1..Len(res.metrics[m]),
                                 i \in 1..Len(result.rows)} :
                     m \in DOMAIN res.metrics} :
        /\ result.rows[t[3]].metric_type = t[1]
        /\ date(result.rows[t[3]].recorded_at) = res.metrics[t[1]][t[2]].date}

\* every returned row lies in the bucket of exactly one point of the series
\* of its metric, the buckets of the points add up to dataPoints, and the
\* date of that point is date(recorded_at)
BucketedBy(date(_)) ==
    /\ res.dataPoints = Len(result.rows)
    /\ DOMAIN res.metrics = MetricsOf(result.rows)
    /\ Cardinality(BucketMembers(date)) = res.dataPoints
    /\ \A i \in 1..Len(result.rows) :
          Cardinality({k \in 1..Len(res.metrics[result.rows[i].metric_type]) :
                          res.metrics[result.rows[i].metric_type][k].date
                              = date(result.rows[i].recorded_at)}) = 1

\* C14: for every history request whose query returns rows, every returned
\* row is placed in exactly one bucket, the bucket sizes add up to the row
\* count reported as dataPoints, and the date of the bucket of a row is the
\* calendar date of its recorded_at in the server's local time zone,
\* whatever the zone offset and the time of day.
C14_BucketLocalDate ==
    (HistoryReplied /\ result.rows # <<>>) => BucketedBy(LocalDate)

\* what the code does: the same with the ISO (UTC) date of recorded_at as
\* the date of the bucket
C14_BucketISODate ==
    (HistoryReplied /\ result.rows # <<>>) => BucketedBy(ISODate)

\* a response whose rows lie on two ISO dates, bucketed by ISO date
C14_Witness ==
    /\ HistoryReplied
    /\ Len(result.rows) = 2
    /\ ISODate(result.rows[1].recorded_at) # ISODate(result.rows[2].recorded_at)
    /\ tz # 0
    /\ BucketedBy(ISODate)

(* ------------------------------------------------------------------------ *)
\* the highest threshold of the table
LastThreshold == phases[Len(phases)].threshold

\* the call of predictPhenologicalPhase has returned
PhenoReturned == pheno.pc = "returned"

\* C15: for every gdd >= 0 below the highest threshold, currentPhase is
\* the stage of the highest threshold <= gdd, nextPhase the stage of the
\* first threshold > gdd, progress is (gdd - prevThreshold) /
\* (nextThreshold - prevThreshold) * 100 clamped to [0, 100], prevThreshold
\* being the threshold of the current stage, and daysToNextPhase is
\* ceil((nextThreshold - gdd) / 10).
C15_StageSelection ==
    (PhenoReturned /\ pheno.ret.gdd >= 0 /\ pheno.ret.gdd < 2 * LastThreshold) =>
        \E c \in 1..(Len(phases) - 1) :
           LET gdd2 == pheno.ret.gdd
               prevThreshold == phases[c].threshold
               nextThreshold == phases[c + 1].threshold
               num == (gdd2 - 2 * prevThreshold) * 100
               den == 2 * (nextThreshold - prevThreshold)
               days == pheno.ret.daysToNextPhase
           IN /\ 2 * prevThreshold <= gdd2
              /\ gdd2 < 2 * nextThreshold
              /\ \A k \in 1..Len(phases) :
                    (2 * phases[k].threshold <= gdd2) => k <= c
              /\ pheno.ret.currentPhase = phases[c].phase
              /\ pheno.ret.nextPhase = phases[c + 1].phase
              /\ 0 <= num /\ num <= 100 * den
              /\ pheno.ret.progress.num * den = num * pheno.ret.progress.den
              /\ pheno.ret.progress.den > 0
              /\ 20 * (days - 1) < 2 * nextThreshold - gdd2
              /\ 2 * nextThreshold - gdd2 <= 20 * days

\* C15 witness: a fractional gdd past the first threshold: 20 days of mean
\* 15.5 give gdd 110, bud swell, progress 10, nine days to bud break
C15_Witness ==
    /\ PhenoReturned
    /\ pheno.ret.gdd = 220
    /\ pheno.ret.currentPhase = "bud swell"
    /\ pheno.ret.nextPhase = "bud break"
    /\ pheno.ret.progress.num * 10 = pheno.ret.progress.den * 100
    /\ pheno.ret.daysToNextPhase = 9

(* ------------------------------------------------------------------------ *)
\* C16: for every gdd at or beyond the highest threshold, the result has
\* currentPhase = the last stage (full maturity), nextPhase = that same
\* stage, progress = 100 and daysToNextPhase = 0, and no value of the
\* result is negative.
C16_BeyondLastThreshold ==
    (PhenoReturned /\ pheno.ret.gdd >= 2 * LastThreshold) =>
        /\ pheno.ret.currentPhase = phases[Len(phases)].phase
        /\ pheno.ret.nextPhase = phases[Len(phases)].phase
        /\ pheno.ret.progress.num = 100 * pheno.ret.progress.den
        /\ pheno.ret.daysToNextPhase = 0

\* what the code returns for a gdd at or beyond the highest threshold: the
\* last stage as currentPhase, and the initial values of the loop, bud swell
\* as nextPhase and progress 0, with daysToNextPhase = ceil((100 - gdd) / 10),
\* a negative number
C16_BeyondLastThresholdAsCoded ==
    (PhenoReturned /\ pheno.ret.gdd >= 2 * LastThreshold) =>
        /\ pheno.ret.currentPhase = phases[Len(phases)].phase
        /\ pheno.ret.nextPhase = "bud swell"
        /\ pheno.ret.progress.num = 0
        /\ pheno.ret.daysToNextPhase < 0
        /\ pheno.ret.daysToNextPhase = MathCeil(200 - pheno.ret.gdd, 20)

(* ------------------------------------------------------------------------ *)
\* the readings of metric m a history request is about: the stored rows of
\* its garden that are in range and pass its metric filter
ReadingsOf(m) ==
    {r \in InRange(result.garden, result.since) :
        r.metric_type = m /\ result.metric \in {"all", m}}

\* the series of every metric of the response has exactly one point per
\* day on which the metric has a reading, the day of a reading being
\* date(recorded_at) and the day of a point that of the reading it carries
\* the timestamp of, and its points ascend strictly by day
OnePointPerDay(date(_)) ==
    \A m \in DOMAIN res.metrics :
       LET series == res.metrics[m]
           dayOf(k) == date(series[k].timestamp)
       IN /\ {dayOf(k) : k \in 1..Len(series)}
                 = {date(r.recorded_at) : r \in ReadingsOf(m)}
          /\ \A j, k \in 1..Len(series) : (j < k) => dayOf(j) < dayOf(k)

\* C17: for every history request served from stored readings and every
\* metric of the result, the series has exactly one point per calendar day
\* (in the server's local time zone, the calendar date of the spec) on which
\* the metric has a reading in range, no day twice and no day without data,
\* and the points are in strictly ascending order of date, in whatever
\* order the readings were inserted.
C17_OnePointPerLocalDay ==
    (HistoryReplied /\ result.rows # <<>>) => OnePointPerDay(LocalDate)

\* what the code does: one point per ISO (UTC) date with a reading, the
\* points ascending strictly by their date field
C17_OnePointPerISODate ==
    (HistoryReplied /\ result.rows # <<>>) =>
        /\ OnePointPerDay(ISODate)
        /\ \A m \in DOMAIN res.metrics :
              \A k \in 1..Len(res.metrics[m]) :
                 res.metrics[m][k].date = ISODate(res.metrics[m][k].timestamp)

====
